---------------------------- MODULE Spec2Model ----------------------------
(***************************************************************************)
(* kindleboard: generate_dashboard.py.                                     *)
(*                                                                         *)
(* One run of the script: four collectors (fetch_todoist, fetch_battery,   *)
(* fetch_weather, fetch_security_feeds), the layout engine                 *)
(* (draw_dashboard, draw_calendar) and the publisher (push_to_kindle),     *)
(* called in that order by the __main__ block.                             *)
(*                                                                         *)
(* The answers of the outside world during the run (environment variables, *)
(* HTTP responses, ssh/scp exit statuses, feed documents, the clock, the   *)
(* font and icon files) are fixed by the initial state and never change;   *)
(* every action is the whole function of the same name.                    *)
(*                                                                         *)
(* Text is modelled by TLA+ strings.  Three non-ASCII characters of the    *)
(* source are written with an ASCII stand-in of the same length:           *)
(*   "*" for the bullet, "v" for the ballot box, "o" for the degree sign.  *)
(* Python's None is the string NONE where a string is expected.            *)
(***************************************************************************)
EXTENDS Integers, Sequences, FiniteSets, TLC

VARIABLES
    \* ---- the outside world of this run (never changes) ----
    TODOIST_TOKEN,   \* os.getenv("TODOIST_API_TOKEN"); "" when unset or empty
    tasksResp,       \* answer to GET /rest/v2/tasks
    doneResp,        \* answer to GET /sync/v9/completed/get_all
    batteryRead,     \* outcome of the ssh "cat .../capacity"
    weatherResp,     \* WEATHER_API_KEY, answer of the weather API, icon download
    feedSrc,         \* what feedparser.parse gives for each of the three urls
    today,           \* the clock: weekday of day 1, days in month, day of month
    glyph,           \* mean glyph advance of the font, in percent of the font size
    fontOk,          \* FONT_PATH can be loaded
    iconsOk,         \* the card icons under ICON_DIR can be loaded
    scpOk,           \* the scp of push_to_kindle exits with status 0
    eipsOk,          \* the ssh eips of push_to_kindle exits with status 0
    \* ---- the program ----
    pc,              \* the statement of __main__ to run next, "done" or "exit"
    tasks, done, battery, weather, feeds,   \* the locals of __main__
    iconFile,        \* content of /tmp/weather.png
    canvas,          \* the drawing calls made on img so far, in order
    imageWritten,    \* dashboard.png has been saved
    scpRuns,         \* number of times scp was run
    eipsRuns,        \* number of times the eips command was run
    remoteFile,      \* /mnt/us/dashboard.png on the device holds the image
    refreshed,       \* the device has redrawn its display
    exitCode,        \* exit status of the process, -1 while it runs
    err              \* the function whose exception ended the run, "" if none

world == <<TODOIST_TOKEN, tasksResp, doneResp, batteryRead, weatherResp, feedSrc,
           today, glyph, fontOk, iconsOk, scpOk, eipsOk>>

prog == <<pc, tasks, done, battery, weather, feeds, iconFile, canvas,
          imageWritten, scpRuns, eipsRuns, remoteFile, refreshed, exitCode, err>>

vars == <<world, prog>>

---------------------------------------------------------------------------
(* Configuration, lines 11-26 *)

WIDTH == 1448

HEIGHT == 1072

NONE == "<None>"

Min(a, b) == IF a < b THEN a ELSE b

---------------------------------------------------------------------------
(* Python string helpers *)

IsSpace(c) == c \in {" ", "\n", "\t"}

RECURSIVE LStrip(_)
LStrip(s) ==
    IF Len(s) > 0 /\ IsSpace(SubSeq(s, 1, 1))
    THEN LStrip(SubSeq(s, 2, Len(s)))
    ELSE s

RECURSIVE RStrip(_)
RStrip(s) ==
    IF Len(s) > 0 /\ IsSpace(SubSeq(s, Len(s), Len(s)))
    THEN RStrip(SubSeq(s, 1, Len(s) - 1))
    ELSE s

\* str.strip()
strip(s) == RStrip(LStrip(s))

\* s[:n]
Take(s, n) == SubSeq(s, 1, Min(n, Len(s)))

\* str.replace("\n", " "), each half of the string in turn
RECURSIVE ReplaceNewlines(_)
ReplaceNewlines(s) ==
    IF Len(s) = 0 THEN s
    ELSE IF Len(s) = 1 THEN (IF s = "\n" THEN " " ELSE s)
    ELSE LET h == Len(s) \div 2
         IN  ReplaceNewlines(SubSeq(s, 1, h)) \o ReplaceNewlines(SubSeq(s, h + 1, Len(s)))

\* round() of a number given in tenths: to the nearest integer, ties to even
round(tenths) ==
    LET q == tenths \div 10
        r == tenths % 10
    IN  IF r < 5 THEN q
        ELSE IF r > 5 THEN q + 1
        ELSE IF q % 2 = 0 THEN q ELSE q + 1

\* the value of fetch_weather when it returns None
NoWeather ==
    [isNone |-> TRUE, temp |-> 0, condition |-> "", humidity |-> 0, icon |-> NONE]

---------------------------------------------------------------------------
(* The program after start-up, before the first statement of __main__ *)

Start ==
    /\ pc = "fetch_todoist"
    /\ tasks = <<>>
    /\ done = <<>>
    /\ battery = ""
    /\ weather = NoWeather
    /\ feeds = <<>>
    /\ iconFile = "absent"
    /\ canvas = <<>>
    /\ imageWritten = FALSE
    /\ scpRuns = 0
    /\ eipsRuns = 0
    /\ remoteFile = FALSE
    /\ refreshed = FALSE
    /\ exitCode = -1
    /\ err = ""

\* An exception nobody catches, or sys.exit(1): the interpreter exits with 1.
Abort(who) ==
    /\ pc' = "exit"
    /\ exitCode' = 1
    /\ err' = who

---------------------------------------------------------------------------
(* fetch_todoist, lines 31-38, and line 336 *)

fetch_todoist ==
    /\ pc = "fetch_todoist"
    /\ IF TODOIST_TOKEN = ""
       THEN Abort("SystemExit") /\ UNCHANGED <<tasks, done>>
       ELSE IF tasksResp.raises \/ doneResp.raises
       THEN Abort("fetch_todoist") /\ UNCHANGED <<tasks, done>>
       ELSE /\ tasks' = tasksResp.json
            /\ done' = Take(doneResp.items, 5)
            /\ pc' = "fetch_battery"
            /\ UNCHANGED <<exitCode, err>>
    /\ UNCHANGED <<battery, weather, feeds, iconFile, canvas, imageWritten,
                   scpRuns, eipsRuns, remoteFile, refreshed>>
    /\ UNCHANGED world

---------------------------------------------------------------------------
(* fetch_battery, lines 40-49, and line 337 *)

\* the value fetch_battery returns for one outcome of the remote read
BatteryValue(r) ==
    IF r.kind = "ok" /\ r.decodes
    THEN strip(r.out)
    ELSE "N/A"

fetch_battery ==
    /\ pc = "fetch_battery"
    /\ battery' = BatteryValue(batteryRead)
    /\ pc' = "fetch_weather"
    /\ UNCHANGED <<tasks, done, weather, feeds, iconFile, canvas, imageWritten,
                   scpRuns, eipsRuns, remoteFile, refreshed, exitCode, err>>
    /\ UNCHANGED world

---------------------------------------------------------------------------
(* fetch_weather, lines 51-98, and line 338 *)

ICON_PATH == "/tmp/weather.png"

\* lines 56-71: the cases in which fetch_weather returns None before it reads
\* the "current" object, and line 96 (any exception of the main request)
WeatherUnavailable(r) ==
    \/ ~r.key
    \/ r.net = "raise"
    \/ r.status # 200
    \/ ~r.parses
    \/ ~r.hasCurrent

\* lines 80-87: the path of the downloaded icon, None when the download raised
IconPath(r) == IF r.icon = "raise" THEN NONE ELSE ICON_PATH

\* the value fetch_weather returns
WeatherValue(r) ==
    IF WeatherUnavailable(r)
    THEN NoWeather
    ELSE [isNone    |-> FALSE,
          temp      |-> round(r.temp_c),
          condition |-> r.condition,
          humidity  |-> r.humidity,
          icon      |-> IconPath(r)]

\* lines 82-84: what the download leaves in /tmp/weather.png; a response with
\* an error status does not raise, and its body is written like an image
IconFileAfter(r, before) ==
    IF WeatherUnavailable(r) \/ r.icon = "raise" THEN before ELSE r.icon

fetch_weather ==
    /\ pc = "fetch_weather"
    /\ weather' = WeatherValue(weatherResp)
    /\ iconFile' = IconFileAfter(weatherResp, iconFile)
    /\ pc' = "fetch_security_feeds"
    /\ UNCHANGED <<tasks, done, battery, feeds, canvas, imageWritten,
                   scpRuns, eipsRuns, remoteFile, refreshed, exitCode, err>>
    /\ UNCHANGED world

---------------------------------------------------------------------------
(* fetch_security_feeds, lines 101-118, and line 339 *)

\* lines 111-113: feed.entries[:1], each entry's title cleaned and appended;
\* reading the title of an entry that has none raises
RECURSIVE EntryLoop(_, _, _)
EntryLoop(entries, j, items) ==
    IF j > Len(entries)
    THEN [raised |-> FALSE, error |-> "", items |-> items]
    ELSE IF ~entries[j].hasTitle
    THEN [raised |-> TRUE, error |-> "title", items |-> items]
    ELSE EntryLoop(entries, j + 1,
                   Append(items, "* " \o strip(ReplaceNewlines(entries[j].title))))

\* lines 109-113: the loop over the urls
RECURSIVE FeedLoop(_, _, _)
FeedLoop(src, i, items) ==
    IF i > Len(src)
    THEN [raised |-> FALSE, error |-> "", items |-> items]
    ELSE IF src[i].raises
    THEN [raised |-> TRUE, error |-> "parse", items |-> items]
    ELSE LET r == EntryLoop(Take(src[i].entries, 1), 1, items)
         IN  IF r.raised THEN r ELSE FeedLoop(src, i + 1, r.items)

\* fetch_security_feeds with an except clause that appends the placeholder to
\* the headlines collected so far
FeedsValueKeep(src) ==
    LET r == FeedLoop(src, 1, <<>>)
        items == IF r.raised THEN Append(r.items, "Feed error: " \o r.error)
                 ELSE IF r.items = <<>> THEN <<"No new security updates.">>
                 ELSE r.items
    IN  Take(items, 3)

\* lines 107-118: the value fetch_security_feeds returns
FeedsValue(src) ==
    LET r == FeedLoop(src, 1, <<>>)
        items == IF r.raised THEN <<"Feed error: " \o r.error>>
                 ELSE IF r.items = <<>> THEN <<"No new security updates.">>
                 ELSE r.items
    IN  Take(items, 3)

fetch_security_feeds ==
    /\ pc = "fetch_security_feeds"
    /\ feeds' = FeedsValue(feedSrc)
    /\ pc' = "draw_dashboard"
    /\ UNCHANGED <<tasks, done, battery, weather, iconFile, canvas, imageWritten,
                   scpRuns, eipsRuns, remoteFile, refreshed, exitCode, err>>
    /\ UNCHANGED world

---------------------------------------------------------------------------
(* Drawing calls.  The canvas is the sequence of the calls made on draw and *)
(* img, in order.  tag names the statement that makes the call and item the *)
(* index of the list element it draws (0 when it draws none).               *)

\* draw.textlength(text, font): the advance of the text in pixels
textlength(text, font) == Len(text) * ((font * glyph) \div 100)

Text(tag, item, x, y, text, font, fill) ==
    [op |-> "text", tag |-> tag, item |-> item, x |-> x, y |-> y,
     x2 |-> x, y2 |-> y, text |-> text, font |-> font, fill |-> fill]

\* rectangle, rounded_rectangle, line and paste: the box (x, y, x2, y2)
Shape(op, tag, x, y, x2, y2, fill) ==
    [op |-> op, tag |-> tag, item |-> 0, x |-> x, y |-> y,
     x2 |-> x2, y2 |-> y2, text |-> "", font |-> 0, fill |-> fill]

\* lines 203-207: the five font sizes
FONT_TITLE == 42

FONT_HEADER == 30

FONT_SUB == 26

FONT_SMALL == 20

FONT_CAL == 22

\* lines 210-212
PADDING == 40

DIVIDER_X == 900

CARD_SPACING == 25

\* f"{day:2}" and strftime's %d
Pad(n, c) == IF n < 10 THEN c \o ToString(n) ELSE ToString(n)

---------------------------------------------------------------------------
(* draw_icon_with_text, lines 123-144 *)

draw_icon_with_text(tag, x, y, label, font) ==
    IF iconsOk
    THEN << Shape("paste", tag, x, y, x + 40, y + 40, 0),
            Text(tag, 0, x + 55, y + 6, label, font, 0) >>
    ELSE << Text(tag, 0, x, y, label, font, 0) >>

---------------------------------------------------------------------------
(* draw_calendar, lines 148-192 *)

Zeros(n) == [i \in 1..n |-> 0]

\* calendar.Calendar(firstweekday=0).itermonthdays: day1 is the weekday of the
\* first of the month (Monday = 0)
itermonthdays(day1, ndays) ==
    Zeros(day1 % 7) \o [i \in 1..ndays |-> i]
                    \o Zeros((7 - ((day1 + ndays) % 7)) % 7)

\* now.strftime("%B %Y") for a month of that many days
MonthName(ndays) ==
    CASE ndays = 28 -> "February 2026"
      [] ndays = 29 -> "February 2028"
      [] ndays = 30 -> "November 2026"
      [] OTHER      -> "December 2026"

\* the loop over month_days with the continue of a padding day placed before
\* the column is advanced
RECURSIVE DayLoopNoAdvance(_, _, _, _, _, _, _, _)
DayLoopNoAdvance(month_days, i, col, row, left, y_offset, col_width, ops) ==
    IF i > Len(month_days) THEN ops
    ELSE LET day == month_days[i]
             dx == left + (col_width * (col % 7)) + (col_width \div 3)
             dy == y_offset + (row * 32)
             drawn == IF day = today.day
                      THEN << Shape("rectangle", "cal_today", dx - 10, dy - 3,
                                    dx + 25, dy + 25, 0),
                              Text("cal_day", day, dx, dy, Pad(day, " "), FONT_CAL, 255) >>
                      ELSE << Text("cal_day", day, dx, dy, Pad(day, " "), FONT_CAL, 0) >>
         IN  IF day = 0
             THEN DayLoopNoAdvance(month_days, i + 1, col, row, left, y_offset,
                                   col_width, ops)
             ELSE DayLoopNoAdvance(month_days, i + 1, col + 1,
                                   IF (col + 1) % 7 = 0 THEN row + 1 ELSE row,
                                   left, y_offset, col_width, ops \o drawn)

\* lines 179-192: the loop over month_days
RECURSIVE DayLoop(_, _, _, _, _, _, _, _)
DayLoop(month_days, i, col, row, left, y_offset, col_width, ops) ==
    IF i > Len(month_days) THEN ops
    ELSE LET day == month_days[i]
             dx == left + (col_width * (col % 7)) + (col_width \div 3)
             dy == y_offset + (row * 32)
             drawn == IF day = today.day
                      THEN << Shape("rectangle", "cal_today", dx - 10, dy - 3,
                                    dx + 25, dy + 25, 0),
                              Text("cal_day", day, dx, dy, Pad(day, " "), FONT_CAL, 255) >>
                      ELSE << Text("cal_day", day, dx, dy, Pad(day, " "), FONT_CAL, 0) >>
         IN  IF day = 0
             THEN DayLoop(month_days, i + 1, col + 1, row, left, y_offset,
                          col_width, ops)
             ELSE DayLoop(month_days, i + 1, col + 1,
                          IF (col + 1) % 7 = 0 THEN row + 1 ELSE row,
                          left, y_offset, col_width, ops \o drawn)

WEEKDAYS == << "M", "T", "W", "T", "F", "S", "S" >>

draw_calendar(x, y, w) ==
    LET left == x
        top == y
        width == w - 80
        col_width == width \div 7
        month_name == MonthName(today.ndays)
        month_x == left + ((width - textlength(month_name, FONT_HEADER)) \div 2)
        heads == [i \in 1..7 |->
                    Text("cal_weekday", i,
                         left + (col_width * (i - 1))
                              + ((col_width - textlength(WEEKDAYS[i], FONT_SMALL)) \div 2),
                         top + 40, WEEKDAYS[i], FONT_SMALL, 0)]
    IN  DayLoop(itermonthdays(today.day1, today.ndays), 1, 0, 0, left,
                top + 40 + 30, col_width,
                << Text("cal_month", 0, month_x, top, month_name, FONT_HEADER, 0) >>
                \o heads)

---------------------------------------------------------------------------
(* draw_dashboard, lines 198-324, and line 340 *)

\* line 223, 228: the left edge of the battery text
BatteryX(batt_width) == (WIDTH - 60) - batt_width

\* the weather text placed against the battery text, without the spacing
WeatherXNoGutter(batt_x, weather_width) == batt_x - weather_width

\* lines 232, 238, 250: the left edge of the weather text
WeatherX(batt_x, weather_width) == (batt_x - 40) - weather_width

\* lines 218-251: the header.  raised: os.path.exists(None) raises TypeError,
\* and Image.open raises on a file that is no image; the calls made before
\* the exception stay on the canvas.
Header(bat, w) ==
    LET left_text == "Ddd, Mmm " \o Pad(today.day, "0") \o "  *  HH:MM PM"
        battery_text == "[BAT: " \o bat \o "%]"
        batt_width == textlength(battery_text, FONT_SUB)
        batt_x == BatteryX(batt_width)
        base == << Shape("rectangle", "header_bar", 0, 0, WIDTH, 100, 235),
                   Text("header_left", 0, PADDING, 30, left_text, FONT_HEADER, 0),
                   Text("battery", 0, batt_x, 34, battery_text, FONT_SUB, 0) >>
    IN  IF ~w.isNone
        THEN LET weather_text == ToString(w.temp) \o "oC  " \o w.condition
                                 \o "  Hum " \o ToString(w.humidity) \o "%"
                 weather_x == WeatherX(batt_x, textlength(weather_text, FONT_SUB))
                 icon_x == weather_x - 50
                 ops == Append(base, Text("weather", 0, weather_x, 34,
                                          weather_text, FONT_SUB, 0))
             IN  IF w.icon = NONE
                 THEN [raised |-> TRUE, ops |-> ops]
                 ELSE IF iconFile = "absent"
                 THEN [raised |-> FALSE, ops |-> ops]
                 ELSE IF iconFile # "image"
                 THEN [raised |-> TRUE, ops |-> ops]
                 ELSE [raised |-> FALSE,
                       ops |-> Append(ops, Shape("paste", "weather_icon", icon_x, 27,
                                                 icon_x + 42, 27 + 42, 0))]
        ELSE LET weather_text == "Weather: N/A"
                 weather_x == WeatherX(batt_x, textlength(weather_text, FONT_SUB))
             IN  [raised |-> FALSE,
                  ops |-> Append(base, Text("weather", 0, weather_x, 34,
                                            weather_text, FONT_SUB, 0))]

\* lines 264-272: the loop over tasks[:6]
RECURSIVE TodoLoop(_, _, _, _)
TodoLoop(ts, i, y, ops) ==
    IF i > Len(ts) THEN ops
    ELSE LET c == strip(ts[i].content)
             due == IF ts[i].due # "" THEN " (" \o ts[i].due \o ")" ELSE ""
         IN  IF c = ""
             THEN TodoLoop(ts, i + 1, y, ops)
             ELSE TodoLoop(ts, i + 1, y + 30,
                           Append(ops, Text("todo_item", i, PADDING + 50, y,
                                            "* " \o Take(c, 60) \o due, FONT_SUB, 0)))

\* the loop over done with a filter on the completion timestamp: items older
\* than 24 hours or without a timestamp are skipped
RECURSIVE DoneLoopWindow(_, _, _, _)
DoneLoopWindow(ds, i, y, ops) ==
    IF i > Len(ds) THEN ops
    ELSE LET c == strip(ds[i].content)
         IN  IF c = "" \/ ds[i].completed_at < 0 \/ ds[i].completed_at > 24
             THEN DoneLoopWindow(ds, i + 1, y, ops)
             ELSE DoneLoopWindow(ds, i + 1, y + 28,
                                 Append(ops, Text("done_item", i, PADDING + 50, y,
                                                  "v " \o Take(c, 55), FONT_SUB, 100)))

\* lines 284-289: the loop over done
RECURSIVE DoneLoop(_, _, _, _)
DoneLoop(ds, i, y, ops) ==
    IF i > Len(ds) THEN ops
    ELSE LET c == strip(ds[i].content)
         IN  IF c = ""
             THEN DoneLoop(ds, i + 1, y, ops)
             ELSE DoneLoop(ds, i + 1, y + 28,
                           Append(ops, Text("done_item", i, PADDING + 50, y,
                                            "v " \o Take(c, 55), FONT_SUB, 100)))

\* lines 300-302: the loop over feeds
RECURSIVE FeedLines(_, _, _, _)
FeedLines(fs, i, y, ops) ==
    IF i > Len(fs) THEN ops
    ELSE FeedLines(fs, i + 1, y + 28,
                   Append(ops, Text("feed_item", i, PADDING + 50, y,
                                    Take(fs[i], 85), FONT_SUB, 0)))

\* the card height with the step of the item lines (28) for the row height
CardHeightStep28(ds) == 120 + (Len(ds) * 28)

\* line 277
CardHeight(ds) == 120 + (Len(ds) * 30)

\* lines 260-262, 280-282, 296-298: a card of the left column and its title
Card(tag, box_top, box_bottom, label) ==
    << Shape("rounded_rectangle", tag, PADDING, box_top, DIVIDER_X - 60,
             box_bottom, 240) >>
    \o draw_icon_with_text(tag, PADDING + 30, box_top + 20, label, FONT_TITLE)

\* the top of the card that follows a card ending at box_bottom, lines 274, 291
NextTop(box_bottom) == box_bottom + CARD_SPACING

\* lines 255-302: the left panel
LeftPanel(ts, ds, fs) ==
    LET todo_top == 130
        todo_bottom == todo_top + 250
        done_top == NextTop(todo_bottom)
        done_bottom == done_top + CardHeight(ds)
        feeds_top == NextTop(done_bottom)
        feeds_bottom == feeds_top + 180
    IN  TodoLoop(Take(ts, 6), 1, todo_top + 70,
                 Card("todo_card", todo_top, todo_bottom, "Todo List"))
        \o DoneLoop(ds, 1, done_top + 70,
                    Card("done_card", done_top, done_bottom, "Completed (Latest 5)"))
        \o FeedLines(fs, 1, feeds_top + 70,
                     Card("feeds_card", feeds_top, feeds_bottom, "Security Feeds"))

\* lines 305-314: the divider and the calendar card
RightPanel ==
    << Shape("line", "divider", DIVIDER_X, 110, DIVIDER_X, HEIGHT - 60, 180),
       Shape("rounded_rectangle", "calendar_card", DIVIDER_X + 30, 130,
             WIDTH - 40, 130 + 320, 240) >>
    \o draw_icon_with_text("calendar_card", DIVIDER_X + 60, 130 + 20, "Calendar",
                           FONT_TITLE)
    \o draw_calendar(DIVIDER_X + 60, 130 + 70, WIDTH - (DIVIDER_X + 60))

\* lines 317-320
Footer ==
    << Shape("line", "footer_line", PADDING, HEIGHT - 60, WIDTH - PADDING,
             HEIGHT - 60, 180),
       Text("footer", 0, PADDING, HEIGHT - 45,
            "Updated: HH:MM PM | Dashboard v17 (Icon Edition)", FONT_SMALL, 0) >>

\* The image is rotated by 90 degrees and written after the footer (lines
\* 322-323); the canvas keeps the coordinates before the rotation.
draw_dashboard ==
    /\ pc = "draw_dashboard"
    /\ IF ~fontOk
       THEN Abort("draw_dashboard") /\ UNCHANGED <<canvas, imageWritten>>
       ELSE LET h == Header(battery, weather)
            IN  IF h.raised
                THEN /\ canvas' = h.ops
                     /\ Abort("draw_dashboard")
                     /\ UNCHANGED imageWritten
                ELSE /\ canvas' = h.ops \o LeftPanel(tasks, done, feeds)
                                        \o RightPanel \o Footer
                     /\ imageWritten' = TRUE
                     /\ pc' = "push_to_kindle"
                     /\ UNCHANGED <<exitCode, err>>
    /\ UNCHANGED <<tasks, done, battery, weather, feeds, iconFile,
                   scpRuns, eipsRuns, remoteFile, refreshed>>
    /\ UNCHANGED world

---------------------------------------------------------------------------
(* push_to_kindle, lines 329-332, and line 341 *)

\* push_to_kindle with the scp run without check=True: the refresh is issued
\* whatever the transfer did
push_to_kindle_unchecked ==
    /\ pc = "push_to_kindle"
    /\ scpRuns' = scpRuns + 1
    /\ remoteFile' = scpOk
    /\ eipsRuns' = eipsRuns + 1
    /\ IF ~eipsOk
       THEN Abort("push_to_kindle") /\ UNCHANGED refreshed
       ELSE /\ refreshed' = TRUE
            /\ pc' = "done"
            /\ exitCode' = 0
            /\ UNCHANGED err
    /\ UNCHANGED <<tasks, done, battery, weather, feeds, iconFile, canvas,
                   imageWritten>>
    /\ UNCHANGED world

\* subprocess.run(..., check=True) twice: a non-zero status raises
\* CalledProcessError, which nobody catches
push_to_kindle ==
    /\ pc = "push_to_kindle"
    /\ scpRuns' = scpRuns + 1
    /\ IF ~scpOk
       THEN /\ Abort("push_to_kindle")
            /\ UNCHANGED <<eipsRuns, remoteFile, refreshed>>
       ELSE /\ remoteFile' = TRUE
            /\ eipsRuns' = eipsRuns + 1
            /\ IF ~eipsOk
               THEN Abort("push_to_kindle") /\ UNCHANGED refreshed
               ELSE /\ refreshed' = TRUE
                    /\ pc' = "done"
                    /\ exitCode' = 0
                    /\ UNCHANGED err
    /\ UNCHANGED <<tasks, done, battery, weather, feeds, iconFile, canvas,
                   imageWritten>>
    /\ UNCHANGED world

Next ==
    \/ fetch_todoist
    \/ fetch_battery
    \/ fetch_weather
    \/ fetch_security_feeds
    \/ draw_dashboard
    \/ push_to_kindle

---------------------------------------------------------------------------
(* The outside worlds the specifications range over *)

\* longest list of active tasks the task provider answers with
MaxTasks == 7

\* longest list of completed items the task provider answers with
MaxItems == 6

\* most entries a feed document holds
MaxEntries == 2

RECURSIVE Repeat(_, _)
Repeat(s, n) == IF n = 0 THEN "" ELSE s \o Repeat(s, n - 1)

\* all sequences over S of length at most n
SeqsUpTo(S, n) == UNION {[1..k -> S] : k \in 0..n}

Failed == [raises |-> TRUE, json |-> <<>>, items |-> <<>>]

TasksOk(ts) == [raises |-> FALSE, json |-> ts, items |-> <<>>]

ItemsOk(ds) == [raises |-> FALSE, json |-> <<>>, items |-> ds]

\* active tasks: with a due date, blank, longer than the 60 characters drawn
TaskOf(i) ==
    CASE i % 3 = 1 -> [content |-> "pay rent", due |-> "2026-11-05"]
      [] i % 3 = 2 -> [content |-> "  ", due |-> ""]
      [] OTHER     -> [content |-> Repeat("long task ", 7), due |-> ""]

TaskList(n) == [i \in 1..n |-> TaskOf(i)]

\* n tasks that all have content
PlainTasks(n) == [i \in 1..n |-> [content |-> "water plants", due |-> ""]]

\* completed items; completed_at is the age of the completion in hours, -1
\* when the item carries no completion timestamp
ItemKinds ==
    { [content |-> "call bank ", completed_at |-> 2],
      [content |-> "old chore", completed_at |-> 30],
      [content |-> "unstamped", completed_at |-> -1],
      [content |-> " ", completed_at |-> 3] }

ItemOf(i) ==
    CASE i % 3 = 1 -> [content |-> "call bank ", completed_at |-> 2]
      [] i % 3 = 2 -> [content |-> Repeat("done long ", 6), completed_at |-> 30]
      [] OTHER     -> [content |-> "", completed_at |-> -1]

ItemList(n) == [i \in 1..n |-> ItemOf(i)]

\* n completed items that all have content
PlainItems(n) == [i \in 1..n |-> [content |-> "call bank ", completed_at |-> 2]]

\* outcomes of the remote read of fetch_battery
Read(kind, out, decodes) == [kind |-> kind, out |-> out, decodes |-> decodes]

BatteryOutcomes ==
    { Read("timeout", "", TRUE),          \* subprocess.TimeoutExpired
      Read("nonzero", "", TRUE),          \* CalledProcessError (ssh cannot connect: 255)
      Read("nossh", "", TRUE),            \* FileNotFoundError
      Read("ok", "87\n", TRUE),
      Read("ok", "100\n", TRUE),
      Read("ok", "", TRUE),
      Read("ok", "cat: no such file\n", TRUE),
      Read("ok", "87\n", FALSE) }         \* bytes that are no UTF-8

\* answers of the weather provider
Answer(key, net, status, parses, hasCurrent, icon) ==
    [key |-> key, net |-> net, status |-> status, parses |-> parses,
     hasCurrent |-> hasCurrent, temp_c |-> 245, condition |-> "Partly cloudy",
     humidity |-> 61, icon |-> icon]

WeatherOutcomes ==
    { Answer(FALSE, "ok", 200, TRUE, TRUE, "image"),
      Answer(TRUE, "raise", 200, TRUE, TRUE, "image"),
      Answer(TRUE, "ok", 401, TRUE, TRUE, "image"),
      Answer(TRUE, "ok", 200, FALSE, TRUE, "image"),
      Answer(TRUE, "ok", 200, TRUE, FALSE, "image"),
      Answer(TRUE, "ok", 200, TRUE, TRUE, "image"),
      Answer(TRUE, "ok", 200, TRUE, TRUE, "garbage"),
      Answer(TRUE, "ok", 200, TRUE, TRUE, "raise") }

HotWeather ==
    [Answer(TRUE, "ok", 200, TRUE, TRUE, "image")
        EXCEPT !.temp_c = 355, !.condition = "Patchy light rain with thunder",
               !.humidity = 100]

\* feed documents: source i holds n entries, those of U have no title
Title(i, j) == " Advisory " \o ToString(i) \o "." \o ToString(j) \o "\nupdated "

Doc(i, n, U) ==
    [raises |-> FALSE,
     entries |-> [j \in 1..n |-> [hasTitle |-> j \notin U, title |-> Title(i, j)]]]

LongDoc(i) ==
    [raises |-> FALSE,
     entries |-> << [hasTitle |-> TRUE,
                     title |-> Title(i, 1) \o Repeat("long title ", 8)] >>]

Broken == [raises |-> TRUE, entries |-> <<>>]

SourceOutcomes(i) ==
    {Broken} \cup {Doc(i, n, U) : n \in 0..MaxEntries, U \in SUBSET (1..MaxEntries)}

AllFeeds ==
    { <<a, b, c>> : a \in SourceOutcomes(1), b \in SourceOutcomes(2),
                    c \in SourceOutcomes(3) }

NominalFeeds == << Doc(1, 1, {}), Doc(2, 0, {}), Doc(3, 2, {}) >>

Dates ==
    { t \in [day1 : 0..6, ndays : 28..31, day : 1..31] : t.day <= t.ndays }

NominalDate == [day1 |-> 6, ndays |-> 30, day |-> 3]

\* nominal answers
NominalTodoist ==
    /\ TODOIST_TOKEN = "secret"
    /\ tasksResp = TasksOk(TaskList(2))
    /\ doneResp = ItemsOk(ItemList(2))

NominalBattery == batteryRead = Read("ok", "87\n", TRUE)

NominalWeather == weatherResp = Answer(TRUE, "ok", 200, TRUE, TRUE, "image")

NominalDevice ==
    /\ fontOk = TRUE
    /\ iconsOk = TRUE
    /\ scpOk = TRUE
    /\ eipsOk = TRUE

---------------------------------------------------------------------------
(* Specifications *)

\* The whole run, over the failures of every collector, of the font and of
\* the two remote commands of the publisher.
Init ==
    /\ Start
    /\ TODOIST_TOKEN \in {"", "secret"}
    /\ tasksResp \in {Failed, TasksOk(TaskList(2))}
    /\ doneResp \in {Failed, ItemsOk(ItemList(2))}
    /\ batteryRead \in BatteryOutcomes
    /\ weatherResp \in WeatherOutcomes
    /\ feedSrc \in {NominalFeeds, <<Doc(1, 1, {}), Broken, Doc(3, 1, {})>>,
                    <<Doc(1, 0, {}), Doc(2, 0, {}), Doc(3, 0, {})>>}
    /\ today = NominalDate
    /\ glyph = 60
    /\ fontOk \in BOOLEAN
    /\ iconsOk = TRUE
    /\ scpOk \in BOOLEAN
    /\ eipsOk \in BOOLEAN

Spec == Init /\ [][Next]_vars

\* fetch_security_feeds over every outcome of the three sources.
InitFeeds ==
    /\ Start
    /\ NominalTodoist /\ NominalBattery /\ NominalWeather /\ NominalDevice
    /\ feedSrc \in AllFeeds
    /\ today = NominalDate
    /\ glyph = 60

SpecFeeds == InitFeeds /\ [][Next]_vars

\* The completed card over every list of completed items.
InitCompleted ==
    /\ Start
    /\ TODOIST_TOKEN = "secret"
    /\ tasksResp = TasksOk(TaskList(2))
    /\ doneResp \in {ItemsOk(ds) : ds \in SeqsUpTo(ItemKinds, MaxItems)}
    /\ NominalBattery /\ NominalWeather /\ NominalDevice
    /\ feedSrc = NominalFeeds
    /\ today = NominalDate
    /\ glyph = 60

SpecCompleted == InitCompleted /\ [][Next]_vars

\* The layout over the numbers of tasks, completed items and feed lines, the
\* widths of the header texts and the glyph widths of the font.
InitLayout ==
    /\ Start
    /\ TODOIST_TOKEN = "secret"
    /\ tasksResp \in {TasksOk(TaskList(n)) : n \in 0..MaxTasks}
                     \cup {TasksOk(PlainTasks(MaxTasks))}
    /\ doneResp \in {ItemsOk(ItemList(n)) : n \in 0..MaxItems}
                    \cup {ItemsOk(PlainItems(MaxItems))}
    /\ batteryRead \in {Read("ok", "87\n", TRUE), Read("timeout", "", TRUE)}
    /\ weatherResp \in {Answer(FALSE, "ok", 200, TRUE, TRUE, "image"),
                        Answer(TRUE, "ok", 200, TRUE, TRUE, "image"),
                        Answer(TRUE, "ok", 200, TRUE, TRUE, "raise"),
                        HotWeather}
    /\ feedSrc \in {NominalFeeds,
                    <<Doc(1, 0, {}), Doc(2, 0, {}), Doc(3, 0, {})>>,
                    <<Doc(1, 0, {}), Doc(2, 1, {}), Doc(3, 0, {})>>,
                    <<LongDoc(1), Doc(2, 1, {}), LongDoc(3)>>,
                    <<Doc(1, 1, {}), Broken, Doc(3, 1, {})>>}
    /\ today = NominalDate
    /\ glyph \in {28, 60}
    /\ fontOk = TRUE
    /\ iconsOk \in BOOLEAN
    /\ scpOk = TRUE
    /\ eipsOk = TRUE

SpecLayout == InitLayout /\ [][Next]_vars

\* The calendar over every month shape and every day of the month.
InitCal ==
    /\ Start
    /\ NominalTodoist /\ NominalBattery /\ NominalWeather /\ NominalDevice
    /\ feedSrc = NominalFeeds
    /\ today \in Dates
    /\ glyph = 60

SpecCal == InitCal /\ [][Next]_vars

---------------------------------------------------------------------------
(* Where the run is *)

COLLECTORS == {"fetch_todoist", "fetch_battery", "fetch_weather",
               "fetch_security_feeds"}

\* the run ended in an exception raised inside function f
RaisedIn(f) == pc = "exit" /\ err = f

\* fetch_battery has returned
BatteryReturned ==
    \/ pc \in {"fetch_weather", "fetch_security_feeds", "draw_dashboard",
               "push_to_kindle", "done"}
    \/ RaisedIn("draw_dashboard") \/ RaisedIn("push_to_kindle")

\* fetch_security_feeds has returned
FeedsReturned ==
    \/ pc \in {"draw_dashboard", "push_to_kindle", "done"}
    \/ RaisedIn("draw_dashboard") \/ RaisedIn("push_to_kindle")

\* draw_dashboard has returned
Drawn == pc \in {"push_to_kindle", "done"} \/ RaisedIn("push_to_kindle")

\* push_to_kindle has been called and has returned or raised
Pushed == pc = "done" \/ RaisedIn("push_to_kindle")

RECURSIVE IsDigits(_)
IsDigits(s) ==
    \/ Len(s) = 0
    \/ /\ SubSeq(s, 1, 1) \in {"0", "1", "2", "3", "4", "5", "6", "7", "8", "9"}
       /\ IsDigits(SubSeq(s, 2, Len(s)))

\* the text of an integer
IsInteger(s) == Len(s) > 0 /\ IsDigits(s)

---------------------------------------------------------------------------
(* Properties of the whole run (Spec) *)

\* C1: every collector is isolated: with the credential present, no failure of
\* an external source makes a collector raise, so the run is never ended by an
\* exception of a collector (it goes on to draw_dashboard and push_to_kindle).
C1_CollectorsIsolated ==
    TODOIST_TOKEN # "" => \A f \in COLLECTORS : ~RaisedIn(f)

\* C2: the process ends with a non-zero exit only when the task-provider
\* credential is missing.
C2_ErrorExitOnlyWithoutToken ==
    (pc = "exit" /\ exitCode # 0) => TODOIST_TOKEN = ""

\* C3: push_to_kindle runs only after the image file was written; the transfer
\* is attempted exactly once, the refresh at most once and only after the
\* transfer succeeded; a failure of either ends the run with an error exit;
\* nothing is retried, and neither the local image nor a transferred file is
\* taken back.
C3_PublishOnceNoRollback ==
    /\ scpRuns \in {0, 1} /\ eipsRuns \in {0, 1}
    /\ scpRuns = 1 => imageWritten
    /\ Pushed <=> scpRuns = 1
    /\ eipsRuns = 1 <=> (scpRuns = 1 /\ scpOk)
    /\ remoteFile <=> (scpRuns = 1 /\ scpOk)
    /\ refreshed <=> (eipsRuns = 1 /\ eipsOk)
    /\ (scpRuns = 1 /\ ~(scpOk /\ eipsOk))
          => (RaisedIn("push_to_kindle") /\ exitCode = 1)
    /\ pc = "done" => (exitCode = 0 /\ refreshed)

\* the refresh failed after a transfer that succeeded
C3_Witness ==
    /\ RaisedIn("push_to_kindle") /\ scpRuns = 1 /\ eipsRuns = 1
    /\ imageWritten /\ remoteFile /\ ~refreshed

\* C5: when the weather request succeeds and the icon download fails,
\* fetch_weather returns the snapshot with icon None, and draw_dashboard draws
\* the weather text without the icon and completes without raising.
C5_IconFailureTolerated ==
    (fontOk /\ ~WeatherUnavailable(weatherResp) /\ weatherResp.icon = "raise")
       => /\ FeedsReturned => (~weather.isNone /\ weather.icon = NONE)
          /\ ~RaisedIn("draw_dashboard")

\* C9: fetch_battery returns an integer percentage or the sentinel "N/A", and
\* every outcome of the read other than a well-formed integer reading gives
\* the sentinel.
C9_BatteryIntegerOrSentinel ==
    BatteryReturned => (battery = "N/A" \/ IsInteger(battery))

---------------------------------------------------------------------------
(* Reading the canvas *)

\* the positions in the canvas of the calls of kind op made by statement tag
Calls(op, tag) ==
    {j \in 1..Len(canvas) : canvas[j].op = op /\ canvas[j].tag = tag}

\* the same, for the list element item
ItemCalls(tag, item) ==
    {j \in Calls("text", tag) : canvas[j].item = item}

\* the one call of kind op made by statement tag
TheCall(op, tag) == canvas[CHOOSE j \in Calls(op, tag) : TRUE]

\* a text ends to the right of its origin by its length
RightEdge(c) == c.x + textlength(c.text, c.font)

---------------------------------------------------------------------------
(* Property of fetch_security_feeds (SpecFeeds) *)

\* the first entry of source i cannot be read: the document did not parse, or
\* the entry has no title
SourceRaises(i) ==
    \/ feedSrc[i].raises
    \/ Len(feedSrc[i].entries) > 0 /\ ~feedSrc[i].entries[1].hasTitle

\* the sources that hold an entry, in source order
SourcesWithEntry == SelectSeq(<<1, 2, 3>>, LAMBDA i : Len(feedSrc[i].entries) > 0)

\* the headline of the first entry of source i, cleaned
Headline(i) == "* Advisory " \o ToString(i) \o ".1 updated"

\* C8: fetch_security_feeds returns between 1 and 3 lines; if reading any
\* source raises, exactly one "Feed error: ..." line and no headline; if no
\* source has an entry, the single line "No new security updates."; otherwise
\* one headline per source that has an entry, from its first entry, in source
\* order.
C8_FeedLines ==
    FeedsReturned =>
        /\ Len(feeds) \in 1..3
        /\ IF \E i \in 1..3 : SourceRaises(i)
           THEN /\ Len(feeds) = 1
                /\ SubSeq(feeds[1], 1, 12) = "Feed error: "
           ELSE IF SourcesWithEntry = <<>>
           THEN feeds = <<"No new security updates.">>
           ELSE /\ Len(feeds) = Len(SourcesWithEntry)
                /\ \A k \in 1..Len(feeds) : feeds[k] = Headline(SourcesWithEntry[k])

\* the third source fails after the first two gave a headline each, and the
\* first source holds more than one entry
C8_Witness ==
    /\ FeedsReturned
    /\ ~SourceRaises(1) /\ Len(feedSrc[1].entries) > 1
    /\ ~SourceRaises(2) /\ Len(feedSrc[2].entries) > 0
    /\ SourceRaises(3)
    /\ Len(feeds) = 1

---------------------------------------------------------------------------
(* Property of the completed card (SpecCompleted) *)

\* the completion of item e lies in the trailing 24 hours
InWindow(e) == e.completed_at >= 0 /\ e.completed_at <= 24

HasContent(e) == \E k \in 1..Len(e.content) : ~IsSpace(SubSeq(e.content, k, k))

\* C4 (as claimed): the completed card draws no line for an entry that is older
\* than 24 hours or has no completion timestamp; only entries with content
\* completed within the last 24 hours are drawn.
C4_OnlyRecentDrawn ==
    Drawn => \A i \in 1..Len(done) :
                ItemCalls("done_item", i) # {} => (HasContent(done[i]) /\ InWindow(done[i]))

\* C4 (amended): the completed card draws exactly one line for each of the
\* first five entries of the provider's list whose content is not blank,
\* whatever its completion timestamp, and no other line.
C4_FirstFiveWithContentDrawn ==
    Drawn =>
        /\ Len(done) = Min(5, Len(doneResp.items))
        /\ \A i \in 1..Len(done) : done[i] = doneResp.items[i]
        /\ \A i \in 1..Len(done) :
              Cardinality(ItemCalls("done_item", i))
                 = IF HasContent(done[i]) THEN 1 ELSE 0
        /\ \A j \in Calls("text", "done_item") : canvas[j].item \in 1..Len(done)

\* the provider lists more than five entries; a line is drawn for one that is
\* older than 24 hours and for one without a timestamp, none for a blank one
C4_Witness ==
    /\ Drawn
    /\ Len(doneResp.items) > 5
    /\ \E i \in 1..Len(done) :
          done[i].completed_at > 24 /\ ItemCalls("done_item", i) # {}
    /\ \E i \in 1..Len(done) :
          done[i].completed_at < 0 /\ ItemCalls("done_item", i) # {}
    /\ \E i \in 1..Len(done) :
          ~HasContent(done[i]) /\ ItemCalls("done_item", i) = {}

---------------------------------------------------------------------------
(* Property of draw_calendar (SpecCal) *)

\* draw_calendar has drawn the days
CalendarDrawn == Calls("text", "cal_month") # {}

\* C6: for the day sequence of a month with k leading zeros and N days and for
\* the current day d, every day is drawn exactly once, the day at sequence
\* index i in column i mod 7 and row i div 7 (58 pixels a column from x = 960
\* plus 19, 32 pixels a row from y = 270); nothing else is drawn as a day; and
\* exactly one cell is highlighted, the one of day d: a rectangle behind it
\* and its text in white.
C6_CalendarGrid ==
    CalendarDrawn =>
        LET k == today.day1
            N == today.ndays
            CellX(v) == 960 + 58 * ((k + v - 1) % 7) + 19
            CellY(v) == 270 + 32 * ((k + v - 1) \div 7)
        IN  /\ Cardinality(Calls("text", "cal_day")) = N
            /\ \A v \in 1..N :
                  /\ Cardinality(ItemCalls("cal_day", v)) = 1
                  /\ \A j \in ItemCalls("cal_day", v) :
                        /\ canvas[j].x = CellX(v) /\ canvas[j].y = CellY(v)
                        /\ canvas[j].fill = (IF v = today.day THEN 255 ELSE 0)
            /\ Cardinality(Calls("rectangle", "cal_today")) = 1
            /\ \A j \in Calls("rectangle", "cal_today") :
                  /\ canvas[j].x = CellX(today.day) - 10
                  /\ canvas[j].y = CellY(today.day) - 3

\* a month of 31 days that starts on a Sunday (six rows), seen on its last day
C6_Witness ==
    /\ CalendarDrawn
    /\ today = [day1 |-> 6, ndays |-> 31, day |-> 31]
    /\ \E j \in ItemCalls("cal_day", 31) : canvas[j].y = 270 + 32 * 5

---------------------------------------------------------------------------
(* Properties of the layout (SpecLayout) *)

\* the header texts have been drawn
HeaderDrawn == Calls("text", "weather") # {}

\* C7: the battery text's right edge is at WIDTH - 60 whatever the weather
\* is, and the weather text's left edge is at WIDTH - 60 - B - 40 - Wd, with B
\* and Wd the widths of the two texts; an absent weather is drawn as the text
\* "Weather: N/A".
C7_HeaderPacking ==
    HeaderDrawn =>
        LET b == TheCall("text", "battery")
            w == TheCall("text", "weather")
            B == textlength(b.text, 26)
            Wd == textlength(w.text, 26)
        IN  /\ Cardinality(Calls("text", "battery")) = 1
            /\ Cardinality(Calls("text", "weather")) = 1
            /\ b.text = "[BAT: " \o battery \o "%]"
            /\ b.x + B = WIDTH - 60
            /\ w.x = WIDTH - 60 - B - 40 - Wd
            /\ weather.isNone <=> w.text = "Weather: N/A"

\* no weather and no battery reading: "[BAT: N/A%]" and "Weather: N/A" with
\* glyphs of 15 pixels
C7_Witness ==
    /\ HeaderDrawn /\ Drawn
    /\ weather.isNone /\ battery = "N/A" /\ glyph = 60
    /\ TheCall("text", "battery").x = 1448 - 60 - 11 * 15
    /\ TheCall("text", "weather").x = 1448 - 60 - 11 * 15 - 40 - 12 * 15

\* the three cards of the left column
LeftCards == {"todo_card", "done_card", "feeds_card"}

CardOf(tag) == TheCall("rounded_rectangle", tag)

\* the item lines of a card, with the step between two lines
ItemTag(card) ==
    CASE card = "todo_card" -> "todo_item"
      [] card = "done_card" -> "done_item"
      [] OTHER              -> "feed_item"

Step(card) == IF card = "todo_card" THEN 30 ELSE 28

\* the number of item lines of the same card drawn before call j
LinesBefore(tag, j) == Cardinality({k \in Calls("text", tag) : k < j})

\* the cards are stacked and every item line starts inside its own card
CardsStacked ==
    LET todo == CardOf("todo_card")
        dn == CardOf("done_card")
        fd == CardOf("feeds_card")
    IN  /\ \A c \in LeftCards : Cardinality(Calls("rounded_rectangle", c)) = 1
        /\ todo.y = 130 /\ todo.y2 = todo.y + 250
        /\ dn.y = todo.y2 + 25 /\ dn.y2 - dn.y = 120 + 30 * Len(done)
        /\ fd.y = dn.y2 + 25 /\ fd.y2 = fd.y + 180
        /\ fd.y2 < HEIGHT - 60
        /\ Cardinality(Calls("text", "todo_item")) <= 6
        /\ Cardinality(Calls("text", "done_item")) <= Len(done)
        /\ Cardinality(Calls("text", "feed_item")) = Len(feeds)
        /\ \A c \in LeftCards :
              /\ CardOf(c).y > 100 /\ CardOf(c).y2 < HEIGHT - 60
              /\ CardOf(c).x >= 0 /\ CardOf(c).x2 < DIVIDER_X
              /\ \A j \in Calls("text", ItemTag(c)) :
                    /\ canvas[j].y = CardOf(c).y + 70 + Step(c) * LinesBefore(ItemTag(c), j)
                    /\ canvas[j].y + canvas[j].font <= CardOf(c).y2
                    /\ canvas[j].x > CardOf(c).x /\ canvas[j].x < CardOf(c).x2

\* the inputs C10 ranges over
LayoutInputs == Len(done) \in 0..5 /\ Len(feeds) \in 1..3

\* C10 (as claimed): the cards are stacked with the stated heights and
\* spacing, every item line starts inside its card, the last card ends above
\* the footer line, and no content of the left column overlaps the header
\* bar, the divider at x = 900 or the footer.
C10_NoOverlap ==
    Drawn =>
        /\ LayoutInputs
        /\ CardsStacked
        /\ \A c \in LeftCards : \A j \in Calls("text", c) \cup Calls("text", ItemTag(c)) :
              RightEdge(canvas[j]) < DIVIDER_X

\* C10 (amended): the same for the card rectangles and the starting points of
\* the item lines; the text of a line is not clipped and may run past the
\* right edge of its card and the divider.
C10_CardsStacked ==
    Drawn => (LayoutInputs /\ CardsStacked)

\* seven tasks of which six are drawn, five completed lines, three feed lines,
\* and a feed line of 85 characters that runs across the divider
C10_Witness ==
    /\ Drawn
    /\ Len(tasks) = 7 /\ Cardinality(Calls("text", "todo_item")) = 6
    /\ Len(doneResp.items) > 5 /\ Cardinality(Calls("text", "done_item")) = 5
    /\ Len(feeds) = 3
    /\ \E j \in Calls("text", "feed_item") :
          Len(canvas[j].text) = 85 /\ RightEdge(canvas[j]) > DIVIDER_X

=============================================================================
